---- MODULE Spec2Model ----
\* Job engine of the categorizer: ProcessingService (src/src/lib/session.ts),
\* the streaming start/resume endpoints (src/src/app/api/upload/route.ts) and
\* the session control endpoint (src/src/app/api/processing-sessions/[id]/route.ts),
\* over one ProcessingSession row, its ProcessingResult rows and the Word table.
EXTENDS Integers, Sequences, FiniteSets, TLC

\* ---------------------------------------------------------------- bounds
MaxWordId == 2        \* Word ids are 1..MaxWordId
MaxChunkReq == 2      \* requested chunkSize is 0..MaxChunkReq
MaxEnvSteps == 1      \* PATCH requests, Word deletions and injected per-word faults
                      \* in one behaviour, together
MaxControlSteps == 2  \* the same, where the control endpoint is exercised

MaxRetries == 3       \* withRetry is called with maxRetries in 1..MaxRetries
MaxDelay == 2         \* and with delayMs in 1..MaxDelay
MaxConnects == 3      \* the $connect calls of one behaviour
MaxLanguageId == 1    \* Language ids are 1..MaxLanguageId
MaxValue == 2         \* translation / category values are 1..MaxValue
MaxLatency == 1000    \* a classification call takes 0..MaxLatency milliseconds
MaxDetectedLen == 3   \* the oracle's answer has 0..MaxDetectedLen characters
MaxListLen == 2       \* the language / category list has 0..MaxListLen rows
MaxStreamWords == 8   \* a process-stream request has 1..MaxStreamWords words
MaxChunks == 3        \* chunks the memory of the process holds

\* ---------------------------------------------------------------- constants
ChunkFloor == 1       \* Math.max(1, ...)
ChunkCap == 50        \* Math.min(50, chunkSize)
NoWordId == 0         \* lastProcessedWordId: null
NoPromise == 0        \* connectionPromise: null
BackoffFactor == 2    \* delayMs *= 2
NoLanguage == 0       \* languageId: null
NoRowId == 0          \* findFirst: null
EstimatedTokens == 1  \* estimateTokens(...) of a classified word, one unit
UnitPrice == 1        \* calculateCost: the price of one unit of tokens
MsPerSecond == 1000   \* calculateETA: / 1000
WindowCap == 100      \* processingTimes.length > 100
BatchSize == 10       \* process-stream: BATCH_SIZE

WordIds == 1..MaxWordId
Engines == {"post", "put"}      \* the service built by POST (start) and by PUT (resume)
Modes == {"batch", "parallel"}
Actions == {"pause", "cancel", "reset"}

CancelMessage == "Cancelled by user"
NoCategoriesMessage == "No categories found in database"
StoreMessage == "Database operation failed"
NotFoundMessage == "Session not found or already completed"
StreamClosedMessage == "Invalid state: Controller is already closed"
RangeMessage == "Invalid array length"

\* What can happen to one word inside processWordWithTracking:
\*   ok       classify, word update and the success row all succeed
\*   classify processWord (or the matching after it) throws
\*   update   prisma.word.update throws
\*   create   the insert of the success row throws, the catch block inserts a failure row
\*   escape   the insert of the failure row throws too: the error leaves the function
Outcomes == {"ok", "classify", "update", "create", "escape"}

Min(a, b) == IF a < b THEN a ELSE b
Max(a, b) == IF a > b THEN a ELSE b

Range(s) == {s[i] : i \in 1..Len(s)}

\* the wordIds a caller submits: the ids 1..n of the first n Word rows, in any order
RECURSIVE Perms(_)
Perms(S) ==
    IF S = {} THEN {<<>>}
    ELSE UNION {{<<x>> \o p : p \in Perms(S \ {x})} : x \in S}
WordIdLists == UNION {Perms(1..n) : n \in 1..MaxWordId}

\* ---------------------------------------------------------------- pure functions

\* Math.ceil(a / b) for a >= 0, b >= 1
CeilDiv(a, b) == IF b > 0 THEN (a + b - 1) \div b ELSE -(a \div (-b))

\* upload/route.ts: chunkSize: Math.max(1, Math.min(50, chunkSize))
ClampChunkSize(cs) == Max(ChunkFloor, Min(ChunkCap, cs))

\* prisma.word.findMany({ where: { id: { in: ids } }, orderBy: { id: 'asc' } })
RECURSIVE SortAsc(_)
SortAsc(S) ==
    IF S = {} THEN <<>>
    ELSE LET m == CHOOSE x \in S : \A y \in S : x <= y
         IN  <<m>> \o SortAsc(S \ {m})

FindManyWords(ids, table) == SortAsc(Range(ids) \cap table)

\* wordIds.indexOf(id): 0-based, -1 when absent
IndexOf(ids, id) ==
    IF \E i \in 1..Len(ids) : ids[i] = id
    THEN (CHOOSE i \in 1..Len(ids) : ids[i] = id /\ \A j \in 1..(i - 1) : ids[j] # id) - 1
    ELSE -1

\* the id list of the where-clause: all of wordIds, or the slice after the cursor
ResolveWordIds(ids, last) ==
    IF last # NoWordId /\ IndexOf(ids, last) # -1
    THEN SubSeq(ids, IndexOf(ids, last) + 2, Len(ids))
    ELSE ids

\* chunkArray(array, chunkSize), chunkSize >= 1
ChunkArray(array, chunkSize) ==
    [j \in 1..CeilDiv(Len(array), chunkSize) |->
        SubSeq(array, (j - 1) * chunkSize + 1, Min(j * chunkSize, Len(array)))]

\* ---------------------------------------------------------------- matching utilities

\* a string is the sequence of its characters
Chars == {"e", "n", "s", "E", " "}
Str(n) == UNION {[1..k -> Chars] : k \in 0..n}

\* toLowerCase, for the capitals that occur in the model
ToLowerChar(c) == CASE c = "E" -> "e" [] c = "S" -> "s" [] OTHER -> c
ToLowerCase(s) == [i \in 1..Len(s) |-> ToLowerChar(s[i])]

\* trim
RECURSIVE TrimStart(_)
TrimStart(s) == IF s # <<>> /\ s[1] = " " THEN TrimStart(Tail(s)) ELSE s
RECURSIVE TrimEnd(_)
TrimEnd(s) == IF s # <<>> /\ s[Len(s)] = " " THEN TrimEnd(SubSeq(s, 1, Len(s) - 1)) ELSE s
Trim(s) == TrimEnd(TrimStart(s))

\* startsWith and includes
StartsWith(s, p) == Len(p) <= Len(s) /\ SubSeq(s, 1, Len(p)) = p
Includes(s, p) == \E i \in 0..(Len(s) - Len(p)) : SubSeq(s, i + 1, i + Len(p)) = p

\* a row of the Language table (code <<>>: null) and of the Category table
LanguageRow(id, name, code) == [id |-> id, name |-> name, code |-> code]
NullRow == LanguageRow(NoLanguage, <<>>, <<>>)
LanguageRows ==
    {LanguageRow(1, <<"E", "n", "g", "l", "i", "s", "h">>, <<"e", "n">>),
     LanguageRow(2, <<"S", "p", "a", "n", "i", "s", "h">>, <<"e", "s">>),
     LanguageRow(3, <<"E", "s", "t", "o", "n", "i", "a", "n">>, <<>>)}
CategoryRows ==
    {LanguageRow(1, <<"S", "e", "e">>, <<>>), LanguageRow(2, <<"S", "e", "e", "n">>, <<>>)}

\* the lists of distinct rows, in any order of priority
ListsOf(rows) ==
    {l \in UNION {[1..k -> rows] : k \in 0..MaxListLen} :
        \A i, j \in 1..Len(l) : i # j => l[i] # l[j]}

\* languageAliases[langKey] || [], for the names of the model (ASCII aliases)
LanguageAliases(langKey) ==
    CASE langKey = <<"e", "n", "g", "l", "i", "s", "h">> ->
            {<<"e", "n">>, <<"e", "n", "g">>, <<"e", "n", "g", "l", "i", "s", "h">>}
      [] langKey = <<"s", "p", "a", "n", "i", "s", "h">> ->
            {<<"e", "s">>, <<"e", "s", "p">>, <<"s", "p", "a", "n", "i", "s", "h">>}
      [] OTHER -> {}

\* the tests of the four loops of findMatchingLanguage
NameMatch(lang, n) == ToLowerCase(lang.name) = n
CodeMatch(lang, n) == lang.code # <<>> /\ ToLowerCase(lang.code) = n
AliasMatch(lang, n) == n \in LanguageAliases(ToLowerCase(lang.name))
PrefixMatch(lang, n) ==
    StartsWith(ToLowerCase(lang.name), n) \/ StartsWith(n, ToLowerCase(lang.name))

\* the two tests of findMatchingCategory
PartialMatch(cat, n) ==
    Includes(ToLowerCase(cat.name), n) \/ Includes(n, ToLowerCase(cat.name))

\* for (const x of list) if (Test(x, n)) return x
FirstMatch(list, n, Test(_, _)) ==
    list[CHOOSE k \in 1..Len(list) :
            Test(list[k], n) /\ \A j \in 1..(k - 1) : ~Test(list[j], n)]
AnyMatch(list, n, Test(_, _)) == \E k \in 1..Len(list) : Test(list[k], n)

\* a single loop that returns the first language any of the four tests accepts
FindMatchingLanguageOneLoop(detectedLanguage, availableLanguages) ==
    LET n == Trim(ToLowerCase(detectedLanguage))
        AnyRule(lang, m) == NameMatch(lang, m) \/ CodeMatch(lang, m) \/ AliasMatch(lang, m)
                           \/ PrefixMatch(lang, m)
    IN  IF detectedLanguage = <<>> THEN NullRow
        ELSE IF AnyMatch(availableLanguages, n, AnyRule)
        THEN FirstMatch(availableLanguages, n, AnyRule)
        ELSE NullRow

\* findMatchingLanguage
FindMatchingLanguage(detectedLanguage, availableLanguages) ==
    LET n == Trim(ToLowerCase(detectedLanguage))
    IN  IF detectedLanguage = <<>> THEN NullRow
        ELSE IF AnyMatch(availableLanguages, n, NameMatch)
        THEN FirstMatch(availableLanguages, n, NameMatch)
        ELSE IF AnyMatch(availableLanguages, n, CodeMatch)
        THEN FirstMatch(availableLanguages, n, CodeMatch)
        ELSE IF AnyMatch(availableLanguages, n, AliasMatch)
        THEN FirstMatch(availableLanguages, n, AliasMatch)
        ELSE IF AnyMatch(availableLanguages, n, PrefixMatch)
        THEN FirstMatch(availableLanguages, n, PrefixMatch)
        ELSE NullRow

\* findMatchingCategory
FindMatchingCategory(detectedCategory, availableCategories) ==
    LET n == Trim(ToLowerCase(detectedCategory))
    IN  IF detectedCategory = <<>> THEN NullRow
        ELSE IF AnyMatch(availableCategories, n, NameMatch)
        THEN FirstMatch(availableCategories, n, NameMatch)
        ELSE IF AnyMatch(availableCategories, n, PartialMatch)
        THEN FirstMatch(availableCategories, n, PartialMatch)
        ELSE NullRow

\* the process-stream handler before a request
NoStream ==
    [pc |-> "idle", mode |-> "batch", total |-> 0, processed |-> 0, isAborted |-> FALSE,
     cancelled |-> FALSE, closed |-> FALSE, types |-> <<>>]

\* chunkArray before its loop: i = 0, chunks = []
NoLoop == [i |-> 0, chunks |-> 0]

\* no call made yet
NoLookup == [kind |-> "none", detected |-> <<>>, list |-> <<>>, result |-> NullRow]

\* ---------------------------------------------------------------- state
VARIABLES
    session,      \* the ProcessingSession row
    wordTable,    \* ids of the rows of the Word table
    hasCategories,\* the Category table is not empty
    results,      \* the ProcessingResult rows of the session, in insertion order
    eng,          \* the two ProcessingService invocations
    events,       \* what each invocation's stream has carried
    ctl,          \* the PATCH request in flight
    budget,       \* the environment steps left
    conn,         \* db.ts: isConnected, connectionPromise and the $connect calls made
    call,         \* db.ts: the callers of withRetry
    wordRows,     \* the rows of the Word table that hold one word text
    ups,          \* db.ts: the callers of upsertWord for that word text
    lookup,       \* db.ts: the latest call of findMatchingLanguage / findMatchingCategory
    ps,           \* the process-stream handler: its stream and its isAborted flag
    loop          \* session.ts: the loop of chunkArray when the chunk size is below 1

vars == <<session, wordTable, hasCategories, results, eng, events, ctl, budget,
          conn, call, wordRows, ups, lookup, ps, loop>>

\* the state of the job engine and the state of the storage gateway (the matching
\* utilities keep no state: lookup is the record of a call, left alone by both, as is
\* the process-stream handler)
jobVars == <<session, wordTable, hasCategories, results, eng, events, ctl, budget,
             lookup, ps, loop>>
dbVars == <<conn, call, wordRows, ups, lookup, ps, loop>>
retryVars == <<conn, call>>
upsertVars == <<wordRows, ups>>

\* startedAt: null, or the new Date() taken by the run that wrote it (two runs read the
\* clock at different times)
NullDate == "null"
NewDate(e) == e

NoSession ==
    [exists |-> FALSE, status |-> "none", totalWords |-> 0, totalChunks |-> 0,
     chunkSize |-> 0, mode |-> "batch", processedWords |-> 0, successfulWords |-> 0,
     failedWords |-> 0, currentChunk |-> 0, wordIds |-> <<>>,
     lastProcessedWordId |-> NoWordId, error |-> "none", retryCount |-> 0,
     totalTokensUsed |-> 0, estimatedCost |-> 0,
     \* the other timestamps: TRUE for a date, FALSE for null
     startedAt |-> NullDate, completedAt |-> FALSE, estimatedEndTime |-> FALSE,
     lastProcessedAt |-> FALSE]

\* a call of processWordWithTracking that has not returned
NoRow == [wordId |-> NoWordId, success |-> FALSE, error |-> "pending"]
NoItem == [outcome |-> "pending", row |-> NoRow]

IdleEngine ==
    [pc |-> "idle", chunkSize |-> 0, mode |-> "batch", from |-> "none",
     snap |-> NoSession, words |-> <<>>, chunkIndex |-> 0, processedWords |-> 0,
     inflight |-> {}, items |-> <<>>, err |-> "none", stopSeen |-> FALSE,
     cancelled |-> FALSE, processingTimes |-> <<>>]

NoStats ==
    [totalWords |-> 0, processedWords |-> 0, successfulWords |-> 0, failedWords |-> 0,
     currentChunk |-> 0, totalChunks |-> 0, estimatedTimeRemaining |-> 0]

\* processingTimes.reduce((a, b) => a + b, 0)
RECURSIVE SumTimes(_)
SumTimes(times) == IF times = <<>> THEN 0 ELSE times[1] + SumTimes(Tail(times))

\* Math.round(num / den) for den > 0: halves go up
Round(num, den) == (2 * num + den) \div (2 * den)

\* an estimate that extrapolates from an empty window too
CalculateETAUnguarded(processedWords, totalWords, times) ==
    IF processedWords = 0 THEN 0
    ELSE IF times = <<>> THEN totalWords - processedWords
    ELSE Round((totalWords - processedWords) * SumTimes(times), Len(times) * MsPerSecond)

\* calculateETA, in seconds
CalculateETA(processedWords, totalWords, times) ==
    IF processedWords = 0 \/ times = <<>> THEN 0
    ELSE Round((totalWords - processedWords) * SumTimes(times), Len(times) * MsPerSecond)

\* processingTimes.push(processingTime), keeping the last WindowCap samples
PushTime(times, t) ==
    IF Len(times) + 1 > WindowCap THEN Tail(Append(times, t)) ELSE Append(times, t)

\* getProcessingStats of service e: the counters of the persisted row and the estimate
\* from the service's own sample window
GetProcessingStats(e) ==
    [totalWords |-> session.totalWords, processedWords |-> session.processedWords,
     successfulWords |-> session.successfulWords, failedWords |-> session.failedWords,
     currentChunk |-> session.currentChunk, totalChunks |-> session.totalChunks,
     estimatedTimeRemaining |->
        CalculateETA(session.processedWords, session.totalWords, eng[e].processingTimes)]

\* the data of an 'error' event carries canResume: true; no other event has the flag
Event(type, wordId, success, chunkIndex, processedWords, stats) ==
    [type |-> type, wordId |-> wordId, success |-> success, chunkIndex |-> chunkIndex,
     processedWords |-> processedWords, stats |-> stats, canResume |-> (type = "error")]

\* a stream: the types of the events it has carried, in order, and its latest event
NoEvents == [types |-> <<>>, last |-> Event("none", NoWordId, FALSE, 0, 0, NoStats)]

\* a callback that drops the event
EmitNothing(e, ev) == events' = events

\* sendEvent: controller.enqueue carries the event, or throws once the consumer has
\* cancelled the stream
Emit(e, ev) ==
    events' = IF eng[e].cancelled THEN events
              ELSE [events EXCEPT ![e] = [types |-> Append(@.types, ev.type),
                                          last |-> ev]]

\* controller.enqueue does not throw
Enqueues(e) == ~eng[e].cancelled

Chunks(e) == ChunkArray(eng[e].words, eng[e].chunkSize)
\* the chunk the loop is at (1-based in the model, chunks[chunkIndex] in the code)
CurrentChunk(e) == Chunks(e)[eng[e].chunkIndex + 1]

\* the chunk loop of e has dispatched a chunk and has not ended
InLoop(e) ==
    \/ eng[e].pc \in {"chunk", "stats", "emitChunk"}
    \/ eng[e].pc = "progress" /\ eng[e].chunkIndex > eng[e].snap.currentChunk

\* ---------------------------------------------------------------- db.ts state

Callers == {"a", "b"}           \* concurrent callers of withRetry
Promises == 1..MaxConnects      \* the promises ensureConnection creates, one per $connect

\* an error: its code and the substrings its message is tested for
Keywords == {"too many connections", "connection", "timeout", "ECONNRESET", "ETIMEDOUT"}
Err(code, words) == [code |-> code, words |-> words]
NoError == Err("none", {})
ConnectError == Err("P1001", {"connect"})       \* what a failed $connect throws
MaxRetriesExceeded == Err("none", {"Max retries exceeded"})
\* the errors an operation throws in the model: a connection error, a timeout known
\* by its message only, connection exhaustion, a constraint violation, not-found
OperationErrors ==
    {Err("P1001", {"connection"}), Err("none", {"timeout"}),
     Err("P2037", {"too many connections", "connection"}),
     Err("P2002", {}), Err("P2025", {})}

RetryableCodes == {"P1001", "P1002", "P1008", "P1017", "P2037"}

\* a test that retries whatever the error is
IsRetryableAlways(error) == TRUE

\* withRetry: isRetryableError
IsRetryableError(error) ==
    \/ error.code \in RetryableCodes
    \/ error.words \cap Keywords # {}

\* a catch block that never resets the connection
ResetsConnectionNever(error) == FALSE

\* withRetry: the errors after which the connection state is reset
ResetsConnection(error) ==
    error.code = "P2037" \/ "too many connections" \in error.words

\* a backoff that keeps the delay
NextDelayFlat(delayMs) == delayMs

\* withRetry: delayMs *= 2
NextDelay(delayMs) == delayMs * BackoffFactor

NoConnection ==
    [isConnected |-> FALSE, connectionPromise |-> NoPromise,
     promise |-> [p \in Promises |-> "none"]]

IdleCaller ==
    [pc |-> "idle", maxRetries |-> 0, initialDelay |-> 0, delayMs |-> 0, attempt |-> 0,
     waitOn |-> NoPromise, invocations |-> 0, errs |-> <<>>, waits |-> <<>>,
     err |-> NoError]

IdleUpsert ==
    [pc |-> "idle", languageId |-> NoLanguage, value |-> 0, found |-> NoRowId,
     after |-> {}, err |-> NoError]

JobInit(steps) ==
    /\ session = NoSession
    /\ wordTable = WordIds
    /\ hasCategories \in BOOLEAN
    /\ results = <<>>
    /\ eng = [e \in Engines |-> IdleEngine]
    /\ events = [e \in Engines |-> NoEvents]
    /\ ctl = [pc |-> "idle", action |-> "none", accepted |-> {}]
    /\ budget = steps

InitJob == JobInit(MaxEnvSteps)

InitRetry ==
    /\ conn = NoConnection
    /\ call = [c \in Callers |-> IdleCaller]
    /\ lookup = NoLookup
    /\ ps = NoStream
    /\ loop = NoLoop

Init ==
    /\ InitJob
    /\ InitRetry
    /\ wordRows = <<>>
    /\ ups = [c \in Callers |-> IdleUpsert]

\* ---------------------------------------------------------------- start and resume

\* ProcessingService.createSession
CreateSession(ids, chunkSize, mode) ==
    [NoSession EXCEPT !.exists = TRUE, !.status = "pending",
                      !.totalWords = Len(ids),
                      !.totalChunks = CeilDiv(Len(ids), chunkSize),
                      !.chunkSize = chunkSize, !.mode = mode, !.wordIds = ids]

\* POST of upload/route.ts: clamp the chunk size, create the session, open the stream
Start(ids, cs, m) ==
    /\ ~session.exists
    /\ eng["post"].pc = "idle"
    /\ session' = CreateSession(ids, ClampChunkSize(cs), m)
    /\ eng' = [eng EXCEPT !["post"] = [@ EXCEPT !.pc = "open", !.from = "new",
                                                !.chunkSize = ClampChunkSize(cs),
                                                !.mode = m]]
    /\ UNCHANGED <<wordTable, hasCategories, results, events, ctl, budget>>
    /\ UNCHANGED dbVars

\* the chunkSize of a manual creation request: any positive number the caller sends
ManualChunkSizes == {ChunkFloor, ChunkCap + 1}

\* POST of processing-sessions: the session row is created with the chunkSize of the
\* request as it is, and no run is started
ManualCreate(ids, cs, m) ==
    /\ ~session.exists
    /\ session' = CreateSession(ids, cs, m)
    /\ UNCHANGED <<wordTable, hasCategories, results, eng, events, ctl, budget>>
    /\ UNCHANGED dbVars

\* the status check of PUT (resume): only a completed session is refused
ResumeAllowed(status) == status # "completed"

\* PUT of upload/route.ts: read the session, refuse a completed one, else build a
\* service from the stored configuration and open the stream
Resume ==
    /\ session.exists
    /\ eng["put"].pc = "idle"
    /\ eng' = [eng EXCEPT !["put"] =
                 IF ResumeAllowed(session.status)
                 THEN [@ EXCEPT !.pc = "open", !.from = session.status,
                                !.chunkSize = session.chunkSize, !.mode = session.mode]
                 ELSE [@ EXCEPT !.pc = "rejected", !.from = session.status]]
    /\ UNCHANGED <<session, wordTable, hasCategories, results, events, ctl, budget>>
    /\ UNCHANGED dbVars

\* stream start(): getProcessingStats, then the 'started' / 'resumed' event
EngOpen(e) ==
    /\ eng[e].pc = "open"
    /\ Emit(e, Event(IF e = "post" THEN "started" ELSE "resumed", NoWordId, FALSE,
                     session.currentChunk, session.processedWords, GetProcessingStats(e)))
    /\ eng' = [eng EXCEPT ![e].pc = IF Enqueues(e) THEN "resumeRead" ELSE "aborted"]
    /\ UNCHANGED <<session, wordTable, hasCategories, results, ctl, budget>>
    /\ UNCHANGED dbVars

\* ---------------------------------------------------------------- processWords

\* a read that hands back a completed session too
ResumeSessionFindsAny(s) == s.exists

\* resumeSession: the row is there and its status is not 'completed'
ResumeSessionFinds(s) == s.exists /\ s.status # "completed"

\* resumeSession, the read: null for a missing or completed session, and processWords
\* throws outside its try block (the route's catch sends the 'error' event)
EngResumeRead(e) ==
    /\ eng[e].pc = "resumeRead"
    /\ IF ~ResumeSessionFinds(session)
       THEN /\ eng' = [eng EXCEPT ![e].pc = IF Enqueues(e) THEN "thrown" ELSE "aborted",
                                  ![e].err = NotFoundMessage]
            /\ Emit(e, Event("error", NoWordId, FALSE, 0, 0, NoStats))
       ELSE /\ eng' = [eng EXCEPT ![e].pc = "resumeWrite", ![e].snap = session]
            /\ UNCHANGED events
    /\ UNCHANGED <<session, wordTable, hasCategories, results, ctl, budget>>
    /\ UNCHANGED dbVars

\* resumeSession, the update: status 'processing'
EngResumeWrite(e) ==
    /\ eng[e].pc = "resumeWrite"
    /\ session' = [session EXCEPT !.status = "processing", !.startedAt = NewDate(e)]
    /\ eng' = [eng EXCEPT ![e].pc = "load"]
    /\ UNCHANGED <<wordTable, hasCategories, results, events, ctl, budget>>
    /\ UNCHANGED dbVars

\* the words the run works on: the live Word rows among the resolved ids, by id
LoadWords(e) ==
    FindManyWords(ResolveWordIds(eng[e].snap.wordIds, eng[e].snap.lastProcessedWordId),
                  wordTable)

\* the categories query, the words query, chunkArray and the loop's initial values
EngLoad(e) ==
    /\ eng[e].pc = "load"
    /\ eng' = [eng EXCEPT ![e] =
                 IF ~hasCategories
                 THEN [@ EXCEPT !.pc = "handleError", !.err = NoCategoriesMessage]
                 ELSE [@ EXCEPT !.words = LoadWords(e),
                                !.chunkIndex = eng[e].snap.currentChunk,
                                !.processedWords = eng[e].snap.processedWords,
                                !.pc = IF eng[e].chunkSize < 1 /\ Len(LoadWords(e)) > 0
                                       THEN "chunkArray"
                                       ELSE IF eng[e].snap.currentChunk <
                                               CeilDiv(Len(LoadWords(e)), eng[e].chunkSize)
                                            THEN "progress" ELSE "complete"]]
    /\ UNCHANGED <<session, wordTable, hasCategories, results, events, ctl, budget>>
    /\ UNCHANGED dbVars

\* chunkArray with a chunk size below 1, one pass of its loop: i < array.length, a
\* chunk is pushed and i += chunkSize
EngChunkArray(e) ==
    /\ eng[e].pc = "chunkArray"
    /\ loop.i < Len(eng[e].words)
    /\ loop.chunks < MaxChunks
    /\ loop' = [i |-> loop.i + eng[e].chunkSize, chunks |-> loop.chunks + 1]
    /\ UNCHANGED <<session, wordTable, hasCategories, results, eng, events, ctl, budget>>
    /\ UNCHANGED <<conn, call, wordRows, ups, lookup, ps>>

\* what a push can do when the memory is used up
PushFailures == {"aborted", "handleError"}

\* the push that the memory of the process cannot hold: the process is ended by the
\* runtime, or the push throws a RangeError into the catch of processWords
EngChunkArrayFull(e, failure) ==
    /\ eng[e].pc = "chunkArray"
    /\ loop.i < Len(eng[e].words)
    /\ loop.chunks = MaxChunks
    /\ eng' = [eng EXCEPT ![e] = [@ EXCEPT !.pc = failure, !.err = RangeMessage]]
    /\ UNCHANGED <<session, wordTable, hasCategories, results, events, ctl, budget>>
    /\ UNCHANGED dbVars

\* a dispatch that starts every word of the chunk at once in either mode
DispatchedAll(mode, n) == 1..n

\* processChunk's dispatch: every word of the chunk at once, or the first one
Dispatched(mode, n) == IF mode = "parallel" THEN 1..n ELSE {1}

\* a checkpoint that is not written
UpdateSessionProgressSkipped(s, currentChunk, processedWords) == s

\* updateSessionProgress: the update
UpdateSessionProgress(s, currentChunk, processedWords) ==
    [s EXCEPT !.currentChunk = currentChunk, !.processedWords = processedWords,
              !.lastProcessedAt = TRUE]

\* updateSessionProgress(chunkIndex, processedWords), then processChunk starts the
\* chunk's classification calls
EngProgress(e) ==
    /\ eng[e].pc = "progress"
    /\ session' = UpdateSessionProgress(session, eng[e].chunkIndex, eng[e].processedWords)
    /\ eng' = [eng EXCEPT ![e] =
                 [@ EXCEPT !.pc = "chunk",
                           !.inflight = Dispatched(eng[e].mode, Len(CurrentChunk(e))),
                           !.items = [i \in 1..Len(CurrentChunk(e)) |-> NoItem]]]
    /\ UNCHANGED <<wordTable, hasCategories, results, events, ctl, budget>>
    /\ UNCHANGED dbVars

\* ---------------------------------------------------------------- processWordWithTracking

\* processWordWithTracking without its catch block around the classification call
EscapesUncaught(o) == o \in {"escape", "classify"}

\* the error leaves processWordWithTracking: only when the catch block's own insert throws
Escapes(o) == o = "escape"

\* the row prisma.processingResult.create stores for word w: the success row at the end
\* of the try block, or the failure row of the catch block
ResultRow(w, o) ==
    [wordId |-> w, success |-> (o = "ok"), error |-> IF o = "ok" THEN "none" ELSE o]

\* a success row that is stored although its insert reports an error, then the catch
\* block's failure row on top of it
StoreRowBoth(rows, w, o) ==
    IF o = "escape" THEN rows
    ELSE IF o = "create" THEN Append(Append(rows, ResultRow(w, "ok")), ResultRow(w, o))
    ELSE Append(rows, ResultRow(w, o))

\* the rows once word w has gone through processWordWithTracking with outcome o
\* (an insert that throws has stored nothing)
StoreRow(rows, w, o) == IF Escapes(o) THEN rows ELSE Append(rows, ResultRow(w, o))

\* what the call leaves its caller: the outcome and the row it returns
ItemOf(w, o) == [outcome |-> o, row |-> IF Escapes(o) THEN NoRow ELSE ResultRow(w, o)]

\* the outcomes word w can have: prisma.word.update throws when the row is gone, so
\* nothing that needs the update to succeed can happen then
OutcomesOf(w) == IF w \in wordTable THEN Outcomes ELSE Outcomes \ {"ok", "create"}

\* an injected fault (anything but success and the update of a missing row) is bounded
Injected(w, o) == o # "ok" /\ ~(o = "update" /\ w \notin wordTable)

\* the words of a batch chunk run one after the other; a parallel chunk's all run at once
NextInflight(mode, inflight, i, n) ==
    IF mode = "parallel" THEN inflight \ {i}
    ELSE IF i < n THEN {i + 1} ELSE {}

\* the classification call returned, so its duration is pushed to the window
Sampled(o) == o # "classify"

\* one word's processWordWithTracking runs to its end with outcome o, its classification
\* call having taken t milliseconds, and the caller (processChunk, then the chunk loop)
\* runs on to its next await
WordDone(e, i, o, t) ==
    LET w == CurrentChunk(e)[i]
        n == Len(CurrentChunk(e))
        left == NextInflight(eng[e].mode, eng[e].inflight, i, n)
        times == IF Sampled(o) THEN PushTime(eng[e].processingTimes, t)
                 ELSE eng[e].processingTimes
    IN
    /\ i \in eng[e].inflight
    /\ o \in OutcomesOf(w)
    /\ IF Injected(w, o)
       THEN /\ budget > 0
            /\ budget' = budget - 1
       ELSE UNCHANGED budget
    /\ results' = StoreRow(results, w, o)
    /\ IF eng[e].pc # "chunk"
       THEN \* Promise.all has already rejected: the sibling still finishes its writes
            /\ eng' = [eng EXCEPT ![e].inflight = @ \ {i}, ![e].items[i] = ItemOf(w, o),
                                  ![e].processingTimes = times]
            /\ UNCHANGED events
       ELSE IF Escapes(o)
       THEN \* the rejection reaches the chunk loop's catch; a batch chunk stops here
            /\ eng' = [eng EXCEPT ![e] =
                         [@ EXCEPT !.pc = "handleError", !.err = StoreMessage,
                                   !.items[i] = ItemOf(w, o), !.processingTimes = times,
                                   !.inflight = IF eng[e].mode = "parallel"
                                                THEN @ \ {i} ELSE {}]]
            /\ UNCHANGED events
       ELSE IF eng[e].mode = "batch" /\ ~Enqueues(e)
       THEN \* the emit of the 'result' event throws inside processChunk
            /\ eng' = [eng EXCEPT ![e] =
                         [@ EXCEPT !.pc = "handleError", !.err = StreamClosedMessage,
                                   !.items[i] = ItemOf(w, o), !.inflight = {},
                                   !.processingTimes = times]]
            /\ UNCHANGED events
       ELSE /\ eng' = [eng EXCEPT ![e] =
                         [@ EXCEPT !.items[i] = ItemOf(w, o),
                                   !.inflight = left, !.processingTimes = times,
                                   !.pc = IF left = {} THEN "stats" ELSE "chunk",
                                   !.processedWords = IF left = {} THEN @ + n ELSE @]]
            /\ IF eng[e].mode = "batch"
               THEN Emit(e, Event("result", w, o = "ok", eng[e].chunkIndex, 0, NoStats))
               ELSE UNCHANGED events
    /\ UNCHANGED <<session, wordTable, hasCategories, ctl>>
    /\ UNCHANGED dbVars

\* chunkResults.filter(r => r.success).length and its complement
CountResults(items, success) ==
    Cardinality({i \in 1..Len(items) : items[i].row.success = success})

\* the tokensUsed of a stored row: the estimate on a success row, the column default
\* on a failure row
TokensUsed(row) == IF row.success THEN EstimatedTokens ELSE 0

\* calculateCost, in units of the model's price
CalculateCost(tokensUsed) == tokensUsed * UnitPrice

\* results.reduce((sum, r) => sum + r.tokensUsed, 0)
RECURSIVE TotalTokens(_)
TotalTokens(items) ==
    IF items = <<>> THEN 0 ELSE TokensUsed(items[1].row) + TotalTokens(Tail(items))

\* updateSessionStats: the four increments
EngStats(e) ==
    /\ eng[e].pc = "stats"
    /\ session' = [session EXCEPT
                     !.successfulWords = @ + CountResults(eng[e].items, TRUE),
                     !.failedWords = @ + CountResults(eng[e].items, FALSE),
                     !.totalTokensUsed = @ + TotalTokens(eng[e].items),
                     !.estimatedCost = @ + CalculateCost(TotalTokens(eng[e].items))]
    /\ eng' = [eng EXCEPT ![e].pc = "emitChunk"]
    /\ UNCHANGED <<wordTable, hasCategories, results, events, ctl, budget>>
    /\ UNCHANGED dbVars

\* getProcessingStats, the 'chunk_complete' event, then the next iteration or the end
EngEmitChunk(e) ==
    /\ eng[e].pc = "emitChunk"
    /\ Emit(e, Event("chunk_complete", NoWordId, FALSE, eng[e].chunkIndex + 1,
                     eng[e].processedWords, GetProcessingStats(e)))
    /\ eng' = [eng EXCEPT ![e] =
                 IF Enqueues(e)
                 THEN [@ EXCEPT !.chunkIndex = @ + 1, !.items = <<>>,
                                !.pc = IF eng[e].chunkIndex + 1 < Len(Chunks(e))
                                       THEN "progress" ELSE "complete"]
                 ELSE [@ EXCEPT !.pc = "handleError", !.err = StreamClosedMessage]]
    /\ UNCHANGED <<session, wordTable, hasCategories, results, ctl, budget>>
    /\ UNCHANGED dbVars

\* completeSession
EngComplete(e) ==
    /\ eng[e].pc = "complete"
    /\ session' = [session EXCEPT !.status = "completed", !.completedAt = TRUE]
    /\ eng' = [eng EXCEPT ![e].pc = "emitComplete"]
    /\ UNCHANGED <<wordTable, hasCategories, results, events, ctl, budget>>
    /\ UNCHANGED dbVars

\* getProcessingStats and the 'complete' event; the stream closes
EngEmitComplete(e) ==
    /\ eng[e].pc = "emitComplete"
    /\ Emit(e, Event("complete", NoWordId, FALSE, eng[e].chunkIndex,
                     eng[e].processedWords, GetProcessingStats(e)))
    /\ eng' = [eng EXCEPT ![e] =
                 IF Enqueues(e) THEN [@ EXCEPT !.pc = "done"]
                 ELSE [@ EXCEPT !.pc = "handleError", !.err = StreamClosedMessage]]
    /\ UNCHANGED <<session, wordTable, hasCategories, results, ctl, budget>>
    /\ UNCHANGED dbVars

\* an update that leaves retryCount alone
HandleSessionErrorUncounted(s, message) ==
    [s EXCEPT !.status = "failed", !.error = message]

\* handleSessionError: the update
HandleSessionError(s, message) ==
    [s EXCEPT !.status = "failed", !.error = message, !.retryCount = @ + 1]

\* handleSessionError, the rethrow and the route's 'error' event
EngHandleError(e) ==
    /\ eng[e].pc = "handleError"
    /\ session' = HandleSessionError(session, eng[e].err)
    /\ Emit(e, Event("error", NoWordId, FALSE, eng[e].chunkIndex, 0, NoStats))
    /\ eng' = [eng EXCEPT ![e].pc = IF Enqueues(e) THEN "thrown" ELSE "aborted"]
    /\ UNCHANGED <<wordTable, hasCategories, results, ctl, budget>>
    /\ UNCHANGED dbVars

\* ---------------------------------------------------------------- control endpoint

\* a check that accepts every request
LegalAlways(a, status) == TRUE

\* the status checks of PATCH
Legal(a, status) ==
    CASE a = "pause" -> status = "processing"
      [] a = "cancel" -> status \in {"processing", "paused", "pending"}
      [] a = "reset" -> status # "processing"

\* PATCH: the session is read and the action checked against its status
PatchRead(a) ==
    /\ ctl.pc = "idle"
    /\ budget > 0
    /\ session.exists
    /\ budget' = budget - 1
    /\ ctl' = IF Legal(a, session.status)
              THEN [ctl EXCEPT !.pc = "write", !.action = a]
              ELSE [ctl EXCEPT !.action = "none"]
    /\ UNCHANGED <<session, wordTable, hasCategories, results, eng, events>>
    /\ UNCHANGED dbVars

\* a reset that leaves the chunk cursor and the cost where they are
PatchUpdateKeep(a, s) ==
    CASE a = "pause" -> [s EXCEPT !.status = "paused"]
      [] a = "cancel" -> [s EXCEPT !.status = "failed", !.error = CancelMessage,
                                   !.completedAt = TRUE]
      [] a = "reset" -> [s EXCEPT !.status = "pending", !.processedWords = 0,
                                  !.successfulWords = 0, !.failedWords = 0]

\* the update each accepted action makes
PatchUpdate(a, s) ==
    CASE a = "pause" -> [s EXCEPT !.status = "paused"]
      [] a = "cancel" -> [s EXCEPT !.status = "failed", !.error = CancelMessage,
                                   !.completedAt = TRUE]
      [] a = "reset" -> [s EXCEPT !.status = "pending", !.processedWords = 0,
                                  !.successfulWords = 0, !.failedWords = 0,
                                  !.currentChunk = 0, !.totalTokensUsed = 0,
                                  !.estimatedCost = 0, !.startedAt = NullDate,
                                  !.completedAt = FALSE, !.estimatedEndTime = FALSE,
                                  !.lastProcessedAt = FALSE, !.error = "none",
                                  !.retryCount = 0, !.lastProcessedWordId = NoWordId]

\* PATCH: the update of the accepted action
PatchWrite ==
    /\ ctl.pc = "write"
    /\ session' = PatchUpdate(ctl.action, session)
    /\ ctl' = [ctl EXCEPT !.pc = IF ctl.action = "reset" THEN "delete" ELSE "idle",
                          !.accepted = @ \cup {ctl.action}]
    /\ eng' = [e \in Engines |->
                 IF ctl.action \in {"pause", "cancel"} /\ InLoop(e)
                 THEN [eng[e] EXCEPT !.stopSeen = TRUE] ELSE eng[e]]
    /\ UNCHANGED <<wordTable, hasCategories, results, events, budget>>
    /\ UNCHANGED dbVars

\* PATCH reset: processingResult.deleteMany
PatchDelete ==
    /\ ctl.pc = "delete"
    /\ results' = <<>>
    /\ ctl' = [ctl EXCEPT !.pc = "idle"]
    /\ UNCHANGED <<session, wordTable, hasCategories, eng, events, budget>>
    /\ UNCHANGED dbVars

\* DELETE /api/words/[id]: a Word row is removed
DeleteWord(w) ==
    /\ w \in wordTable
    /\ budget > 0
    /\ wordTable' = wordTable \ {w}
    /\ budget' = budget - 1
    /\ UNCHANGED <<session, hasCategories, results, eng, events, ctl>>
    /\ UNCHANGED dbVars

\* the consumer cancels the stream of e (the handlers pass no cancel() to the stream)
ClientCancel(e) ==
    /\ eng[e].pc \notin {"idle", "rejected", "done", "thrown", "aborted"}
    /\ ~eng[e].cancelled
    /\ budget > 0
    /\ budget' = budget - 1
    /\ eng' = [eng EXCEPT ![e].cancelled = TRUE]
    /\ UNCHANGED <<session, wordTable, hasCategories, results, events, ctl>>
    /\ UNCHANGED dbVars

\* ---------------------------------------------------------------- db.ts

\* the promise the next $connect gets
NewPromise(cn) == CHOOSE p \in Promises : cn.promise[p] = "none" /\
                                          \A q \in Promises : cn.promise[q] = "none" => p <= q
CanEnsure(cn) ==
    cn.isConnected \/ cn.connectionPromise # NoPromise
       \/ \E p \in Promises : cn.promise[p] = "none"

\* ensureConnection up to its return: the promise the caller awaits (none when the
\* module is connected)
EnsureAwaits(cn) ==
    IF cn.isConnected THEN NoPromise
    ELSE IF cn.connectionPromise # NoPromise THEN cn.connectionPromise
    ELSE NewPromise(cn)

\* ensureConnection up to its return: the module state it leaves
EnsureConnection(cn) ==
    IF cn.isConnected \/ cn.connectionPromise # NoPromise THEN cn
    ELSE [cn EXCEPT !.connectionPromise = NewPromise(cn),
                    !.promise[NewPromise(cn)] = "pending"]

\* withRetry is called: ensureConnection before the loop
Call(c, maxRetries, delayMs) ==
    /\ call[c].pc = "idle"
    /\ CanEnsure(conn)
    /\ conn' = EnsureConnection(conn)
    /\ call' = [call EXCEPT ![c] =
                  [@ EXCEPT !.maxRetries = maxRetries, !.initialDelay = delayMs,
                            !.delayMs = delayMs, !.attempt = 1,
                            !.waitOn = EnsureAwaits(conn),
                            !.pc = IF EnsureAwaits(conn) = NoPromise
                                   THEN "attempt" ELSE "awaitConn"]]
    /\ UNCHANGED <<jobVars, upsertVars>>

\* the body of connectionPromise runs on after prisma.$connect()
ConnectDone(p, ok) ==
    /\ conn.promise[p] = "pending"
    /\ conn' = IF ok
               THEN [conn EXCEPT !.isConnected = TRUE, !.promise[p] = "resolved"]
               ELSE [conn EXCEPT !.connectionPromise = NoPromise,
                                 !.promise[p] = "rejected"]
    /\ UNCHANGED <<call, jobVars, upsertVars>>

\* await ensureConnection(): the loop goes on, or the connection error leaves withRetry
AwaitConnection(c) ==
    /\ call[c].pc = "awaitConn"
    /\ conn.promise[call[c].waitOn] # "pending"
    /\ call' = [call EXCEPT ![c] =
                  IF conn.promise[call[c].waitOn] = "resolved"
                  THEN [@ EXCEPT !.pc = "attempt"]
                  ELSE [@ EXCEPT !.pc = "thrown", !.err = ConnectError]]
    /\ UNCHANGED <<conn, jobVars, upsertVars>>

\* the test of the loop and one pass of its body up to the next await: the loop is
\* over and 'Max retries exceeded' is thrown, or the operation returns, or throws
\* error r and the catch block rethrows it, or resets the connection state, or waits
Attempt(c, r) ==
    /\ call[c].pc = "attempt"
    /\ IF call[c].attempt > call[c].maxRetries
       THEN /\ call' = [call EXCEPT ![c] = [@ EXCEPT !.pc = "thrown",
                                                     !.err = MaxRetriesExceeded]]
            /\ UNCHANGED conn
       ELSE IF r = NoError
       THEN /\ call' = [call EXCEPT ![c] = [@ EXCEPT !.pc = "returned",
                                                     !.invocations = @ + 1]]
            /\ UNCHANGED conn
       ELSE IF call[c].attempt = call[c].maxRetries \/ ~IsRetryableError(r)
       THEN /\ call' = [call EXCEPT ![c] = [@ EXCEPT !.pc = "thrown", !.err = r,
                                                     !.invocations = @ + 1,
                                                     !.errs = Append(@, r)]]
            /\ UNCHANGED conn
       ELSE /\ call' = [call EXCEPT ![c] =
                          [@ EXCEPT !.invocations = @ + 1, !.errs = Append(@, r),
                                    !.pc = IF ResetsConnection(r)
                                           THEN "disconnect" ELSE "sleep"]]
            /\ conn' = IF ResetsConnection(r)
                       THEN [conn EXCEPT !.isConnected = FALSE,
                                         !.connectionPromise = NoPromise]
                       ELSE conn
    /\ UNCHANGED <<jobVars, upsertVars>>

\* the forced prisma.$disconnect() is over (an error of it is only logged)
Disconnected(c) ==
    /\ call[c].pc = "disconnect"
    /\ call' = [call EXCEPT ![c].pc = "sleep"]
    /\ UNCHANGED <<conn, jobVars, upsertVars>>

\* the timer of delayMs fires: the delay doubles, ensureConnection, the next attempt
Slept(c) ==
    /\ call[c].pc = "sleep"
    /\ CanEnsure(conn)
    /\ conn' = EnsureConnection(conn)
    /\ call' = [call EXCEPT ![c] =
                  [@ EXCEPT !.waits = Append(@, call[c].delayMs),
                            !.delayMs = NextDelay(@),
                            !.attempt = @ + 1,
                            !.waitOn = EnsureAwaits(conn),
                            !.pc = IF EnsureAwaits(conn) = NoPromise
                                   THEN "attempt" ELSE "awaitConn"]]
    /\ UNCHANGED <<jobVars, upsertVars>>

\* ---------------------------------------------------------------- upsertWord

LanguageIds == {NoLanguage} \cup 1..MaxLanguageId
Values == 1..MaxValue
WordRow(id, languageId, value) == [id |-> id, languageId |-> languageId, value |-> value]
\* the Word tables a call can meet: no row for the word yet, or one row
SeedRows == {<<>>} \cup {<<WordRow(1, l, 0)>> : l \in LanguageIds}

UniqueViolation == Err("P2002", {})

\* a lookup that finds nothing
FindNone(rows, languageId) == NoRowId

\* tx.word.findFirst({ where: { word, languageId } }): the id of the first match
FindFirst(rows, languageId) ==
    IF \E i \in 1..Len(rows) : rows[i].languageId = languageId
    THEN rows[CHOOSE i \in 1..Len(rows) :
                 /\ rows[i].languageId = languageId
                 /\ \A j \in 1..(i - 1) : rows[j].languageId # languageId].id
    ELSE NoRowId

\* @@unique([word, languageId]) on PostgreSQL: null language ids never collide
Conflicts(rows, languageId) ==
    languageId # NoLanguage /\ \E i \in 1..Len(rows) : rows[i].languageId = languageId

\* tx.word.update({ where: { id }, data: { englishTranslation, category } })
UpdateRow(rows, id, value) ==
    [i \in 1..Len(rows) |-> IF rows[i].id = id THEN [rows[i] EXCEPT !.value = value]
                            ELSE rows[i]]

\* tx.word.create: the id is the next of the sequence
CreateRow(rows, languageId, value) == Append(rows, WordRow(Len(rows) + 1, languageId, value))

\* upsertWord is called
UpsertCall(c, languageId, value) ==
    /\ ups[c].pc = "idle"
    /\ ups' = [ups EXCEPT ![c] =
                 [@ EXCEPT !.pc = "find", !.languageId = languageId, !.value = value,
                           !.after = {d \in Callers : ups[d].pc = "returned"}]]
    /\ UNCHANGED <<wordRows, jobVars, retryVars>>

\* the transaction's findFirst
UpsertFind(c) ==
    /\ ups[c].pc = "find"
    /\ ups' = [ups EXCEPT ![c] =
                 [@ EXCEPT !.pc = "write",
                           !.found = FindFirst(wordRows, ups[c].languageId)]]
    /\ UNCHANGED <<wordRows, jobVars, retryVars>>

\* the transaction's update or create, and its commit; a unique-constraint error
\* aborts the transaction and goes through withRetry's catch block
UpsertWrite(c) ==
    /\ ups[c].pc = "write"
    /\ IF ups[c].found # NoRowId
       THEN /\ wordRows' = UpdateRow(wordRows, ups[c].found, ups[c].value)
            /\ ups' = [ups EXCEPT ![c].pc = "returned"]
       ELSE IF Conflicts(wordRows, ups[c].languageId)
       THEN /\ UNCHANGED wordRows
            /\ ups' = [ups EXCEPT ![c] =
                         IF IsRetryableError(UniqueViolation)
                         THEN [@ EXCEPT !.pc = "find"]
                         ELSE [@ EXCEPT !.pc = "thrown", !.err = UniqueViolation]]
       ELSE /\ wordRows' = CreateRow(wordRows, ups[c].languageId, ups[c].value)
            /\ ups' = [ups EXCEPT ![c].pc = "returned"]
    /\ UNCHANGED <<jobVars, retryVars>>

\* ---------------------------------------------------------------- specification
\* every step of processWords
\* the durations a classification call can have
Latencies == {0, MaxLatency}

\* every step of processWords and of the stream around it, the calls taking a time in T
EngineStepsOf(T) ==
    \/ \E e \in Engines : EngOpen(e)
    \/ \E e \in Engines : EngResumeRead(e)
    \/ \E e \in Engines : EngResumeWrite(e)
    \/ \E e \in Engines : EngLoad(e)
    \/ \E e \in Engines : EngProgress(e)
    \/ \E e \in Engines, i \in 1..MaxWordId, o \in Outcomes, t \in T : WordDone(e, i, o, t)
    \/ \E e \in Engines : EngStats(e)
    \/ \E e \in Engines : EngEmitChunk(e)
    \/ \E e \in Engines : EngComplete(e)
    \/ \E e \in Engines : EngEmitComplete(e)
    \/ \E e \in Engines : EngHandleError(e)

\* the same where every call takes MaxLatency
EngineSteps == EngineStepsOf({MaxLatency})

\* the steps of the runs: the start request and every step of processWords
RunSteps ==
    \/ \E ids \in WordIdLists, cs \in 0..MaxChunkReq, m \in Modes : Start(ids, cs, m)
    \/ EngineSteps

\* every step but the resume request
Steps ==
    \/ RunSteps
    \/ \E a \in Actions : PatchRead(a)
    \/ PatchWrite
    \/ PatchDelete
    \/ \E w \in WordIds : DeleteWord(w)

Next == Steps \/ Resume

\* the whole system: one started run, one resume request, the control endpoint
Spec == Init /\ [][Next]_vars

\* one started run and the control endpoint (no resume request is made)
SpecRun == Init /\ [][Steps]_vars

\* a started run, pause requests and one resume request
NextResume ==
    \/ RunSteps
    \/ Resume
    \/ PatchRead("pause")
    \/ PatchWrite

SpecResume == Init /\ [][NextResume]_vars

\* the steps of the storage gateway for the callers in cs
DbStepsWith(cs, R) ==
    \/ \E c \in cs, mr \in R, d \in 1..MaxDelay : Call(c, mr, d)
    \/ \E p \in Promises, ok \in BOOLEAN : ConnectDone(p, ok)
    \/ \E c \in cs : AwaitConnection(c)
    \/ \E c \in cs, r \in {NoError} \cup OperationErrors : Attempt(c, r)
    \/ \E c \in cs : Disconnected(c)
    \/ \E c \in cs : Slept(c)

\* the callers of the repository: maxRetries is 1 or more
DbSteps(cs) == DbStepsWith(cs, 1..MaxRetries)

InitDb == Init /\ hasCategories

\* one caller of withRetry with any maxRetries from 0
NextRetryAny == DbStepsWith({"a"}, 0..MaxRetries)
SpecRetryAny == InitDb /\ [][NextRetryAny]_vars

\* one caller of withRetry
NextRetry == DbSteps({"a"})
SpecRetry == InitDb /\ [][NextRetry]_vars

\* two concurrent callers of withRetry
NextConn == DbSteps(Callers)
SpecConn == InitDb /\ [][NextConn]_vars

\* one sequential run and a sequence of control requests
InitControl ==
    /\ JobInit(MaxControlSteps) /\ hasCategories
    /\ InitRetry
    /\ wordRows = <<>>
    /\ ups = [c \in Callers |-> IdleUpsert]

NextControl ==
    \/ \E ids \in WordIdLists, cs \in 0..MaxChunkReq : Start(ids, cs, "batch")
    \/ EngineSteps
    \/ \E a \in Actions : PatchRead(a)
    \/ PatchWrite
    \/ PatchDelete

SpecControl == InitControl /\ [][NextControl]_vars

\* the two streams of a sequential session, a start and a resume, with no storage
\* fault and no control request
InitStreams ==
    /\ JobInit(0)
    /\ InitRetry
    /\ wordRows = <<>>
    /\ ups = [c \in Callers |-> IdleUpsert]

NextStreams ==
    \/ \E ids \in WordIdLists, cs \in 0..MaxChunkReq : Start(ids, cs, "batch")
    \/ EngineSteps
    \/ Resume

SpecStreams == InitStreams /\ [][NextStreams]_vars

\* a session created by hand and run by a resume request
NextManual ==
    \/ \E ids \in WordIdLists, cs \in ManualChunkSizes, m \in Modes : ManualCreate(ids, cs, m)
    \/ Resume
    \/ EngineSteps

SpecManual == Init /\ [][NextManual]_vars

\* a session created by hand with a chunk size as the request gave it, a resume
\* request, and a run whose every step is taken in the end
StoredChunkSizes == {-1, ChunkFloor}
ChunkingSteps ==
    \/ EngineSteps
    \/ \E e \in Engines : EngChunkArray(e)
    \/ \E e \in Engines, failure \in PushFailures : EngChunkArrayFull(e, failure)
NextChunking ==
    \/ \E ids \in WordIdLists, cs \in StoredChunkSizes, m \in Modes : ManualCreate(ids, cs, m)
    \/ Resume
    \/ ChunkingSteps
SpecChunking == Init /\ [][NextChunking]_vars /\ WF_vars(ChunkingSteps)

\* a started run of a sequential session whose calls take different times, and a
\* resume request once the run has ended
NextEta ==
    \/ \E ids \in WordIdLists, cs \in 0..MaxChunkReq : Start(ids, cs, "batch")
    \/ EngineStepsOf(Latencies)
    \/ eng["post"].pc \in {"done", "thrown"} /\ Resume

SpecEta == Init /\ [][NextEta]_vars

\* one started run whose consumer may cancel the stream
NextDisconnect ==
    \/ RunSteps
    \/ ClientCancel("post")

SpecDisconnect == Init /\ [][NextDisconnect]_vars

\* a stored session that is not completed and holds a cursor: the row resumeSession
\* reads, with lastProcessedWordId one of the ids (or an id that is not in wordIds) and
\* currentChunk / processedWords at the start or after the first chunk
StoredSession(ids, cs, m, last, chunk) ==
    [CreateSession(ids, cs, m) EXCEPT !.status = "failed",
                                      !.lastProcessedWordId = last,
                                      !.currentChunk = chunk,
                                      !.processedWords = Min(chunk * cs, Len(ids))]

InitCursor ==
    /\ JobInit(0)
    /\ InitRetry
    /\ wordRows = <<>>
    /\ ups = [c \in Callers |-> IdleUpsert]

\* the session is stored, then resumed
NextCursor ==
    \/ /\ ~session.exists
       /\ \E ids \in WordIdLists, cs \in ChunkFloor..MaxChunkReq, m \in Modes,
             last \in WordIds, chunk \in 0..1 :
             session' = StoredSession(ids, cs, m, last, chunk)
       /\ UNCHANGED <<wordTable, hasCategories, results, eng, events, ctl, budget>>
       /\ UNCHANGED dbVars
    \/ Resume
    \/ EngineSteps

SpecCursor == InitCursor /\ [][NextCursor]_vars

\* findMatchingLanguage(detected, languages) is called and returns
MatchLanguage(detected, languages) ==
    /\ lookup = NoLookup
    /\ lookup' = [kind |-> "language", detected |-> detected, list |-> languages,
                  result |-> FindMatchingLanguage(detected, languages)]
    /\ UNCHANGED <<session, wordTable, hasCategories, results, eng, events, ctl, budget>>
    /\ UNCHANGED <<conn, call, wordRows, ups, ps, loop>>

\* findMatchingCategory(detected, categories) is called and returns
MatchCategory(detected, categories) ==
    /\ lookup = NoLookup
    /\ lookup' = [kind |-> "category", detected |-> detected, list |-> categories,
                  result |-> FindMatchingCategory(detected, categories)]
    /\ UNCHANGED <<session, wordTable, hasCategories, results, eng, events, ctl, budget>>
    /\ UNCHANGED <<conn, call, wordRows, ups, ps, loop>>

\* the matching utilities, called with any answer and any list
NextMatch ==
    \/ \E d \in Str(MaxDetectedLen), l \in ListsOf(LanguageRows) : MatchLanguage(d, l)
    \/ \E d \in Str(MaxDetectedLen), l \in ListsOf(CategoryRows) : MatchCategory(d, l)

SpecMatch == InitDb /\ [][NextMatch]_vars

\* ---------------------------------------------------------------- process-stream

\* sendEvent: nothing once isAborted is set, else controller.enqueue
SendEvent(p, type) == IF p.isAborted THEN p ELSE [p EXCEPT !.types = Append(@, type)]

\* POST process-stream: the stream starts and sends the 'status' event
StreamOpen(n, m) ==
    /\ ps.pc = "idle"
    /\ ps' = SendEvent([ps EXCEPT !.pc = "loop", !.total = n, !.mode = m], "status")
    /\ UNCHANGED <<session, wordTable, hasCategories, results, eng, events, ctl, budget>>
    /\ UNCHANGED <<conn, call, wordRows, ups, lookup, loop>>

\* one pass of the loop: a batch of a parallel request (up to BatchSize words), or
\* one word of a sequential one; a word that fails is reported as a 'result' too
RECURSIVE SendResults(_, _)
SendResults(p, k) ==
    IF k = 0 THEN p
    ELSE SendResults(SendEvent([p EXCEPT !.processed = @ + 1], "result"), k - 1)

StreamPass ==
    /\ ps.pc = "loop"
    /\ ps.processed < ps.total
    /\ ps' = SendResults(ps, IF ps.mode = "parallel"
                             THEN Min(BatchSize, ps.total - ps.processed) ELSE 1)
    /\ UNCHANGED <<session, wordTable, hasCategories, results, eng, events, ctl, budget>>
    /\ UNCHANGED <<conn, call, wordRows, ups, lookup, loop>>

\* the loop is over: the 'complete' event
StreamComplete ==
    /\ ps.pc = "loop"
    /\ ps.processed = ps.total
    /\ ps' = SendEvent([ps EXCEPT !.pc = "finally"], "complete")
    /\ UNCHANGED <<session, wordTable, hasCategories, results, eng, events, ctl, budget>>
    /\ UNCHANGED <<conn, call, wordRows, ups, lookup, loop>>

\* finally: cleanup() sets isAborted, then controller.close() unless isAborted
StreamFinally ==
    /\ ps.pc = "finally"
    /\ LET cleaned == [ps EXCEPT !.isAborted = TRUE]
       IN  ps' = [cleaned EXCEPT !.pc = "returned", !.closed = ~cleaned.isAborted]
    /\ UNCHANGED <<session, wordTable, hasCategories, results, eng, events, ctl, budget>>
    /\ UNCHANGED <<conn, call, wordRows, ups, lookup, loop>>

\* cancel(): the client has gone
StreamCancel ==
    /\ ps.pc \in {"loop", "finally"}
    /\ ~ps.cancelled
    /\ ps' = [ps EXCEPT !.isAborted = TRUE, !.cancelled = TRUE]
    /\ UNCHANGED <<session, wordTable, hasCategories, results, eng, events, ctl, budget>>
    /\ UNCHANGED <<conn, call, wordRows, ups, lookup, loop>>

NextProcessStream ==
    \/ \E n \in 1..MaxStreamWords, m \in Modes : StreamOpen(n, m)
    \/ StreamPass
    \/ StreamComplete
    \/ StreamFinally
    \/ StreamCancel

SpecProcessStream == InitDb /\ [][NextProcessStream]_vars

\* two callers of upsertWord for one word text
InitUpsert ==
    /\ InitJob /\ hasCategories
    /\ InitRetry
    /\ wordRows \in SeedRows
    /\ ups = [c \in Callers |-> IdleUpsert]

NextUpsert ==
    \/ \E c \in Callers, l \in LanguageIds, v \in Values : UpsertCall(c, l, v)
    \/ \E c \in Callers : UpsertFind(c)
    \/ \E c \in Callers : UpsertWrite(c)

SpecUpsert == InitUpsert /\ [][NextUpsert]_vars

\* ---------------------------------------------------------------- claims

\* nothing has acted on the session but the run the POST request started
Uninterrupted == budget = MaxEnvSteps /\ eng["put"].pc = "idle"
StatsEvents == {"chunk_complete", "complete"}
CountType(e, t) == Cardinality({k \in 1..Len(events[e].types) : events[e].types[k] = t})
Cancelled == session.status = "failed" /\ session.error = CancelMessage
ResetStep == ctl.action = "reset" /\ ctl.pc \in {"write", "delete"}
IsPrefix(s, t) == Len(s) <= Len(t) /\ SubSeq(t, 1, Len(s)) = s
\* e dispatches the classification calls of a chunk in this step
Dispatches(e) == eng[e].pc = "progress" /\ eng'[e].pc = "chunk"
\* the calls of processWordWithTracking of e that return in this step
Returned(e) == eng[e].inflight \ eng'[e].inflight

\* C1: the stats of every chunk_complete and complete event satisfy
\* successfulWords + failedWords = processedWords and processedWords <= totalWords.
C1_CounterInvariant ==
    \A e \in Engines :
        events[e].last.type \in StatsEvents =>
            /\ events[e].last.stats.successfulWords + events[e].last.stats.failedWords
                 = events[e].last.stats.processedWords
            /\ events[e].last.stats.processedWords <= events[e].last.stats.totalWords

\* C2: a session of n words paused (or failed) after k words, resumed through PUT and
\* run to completion, has exactly n result rows, no two for one word, and
\* processedWords = n.
C2_ResumeDeterminism ==
    ( /\ eng["put"].from \in {"paused", "failed"}
      /\ eng["put"].pc = "done"
      /\ eng["post"].pc \in {"done", "thrown"}
      /\ \A e \in Engines : eng[e].inflight = {}
      /\ session.status = "completed"
      /\ "reset" \notin ctl.accepted /\ ctl.pc = "idle" )
    => /\ Len(results) = session.totalWords
       /\ \A a, b \in 1..Len(results) : results[a].wordId = results[b].wordId => a = b
       /\ session.processedWords = session.totalWords

\* C3: once a pause or cancel has been accepted while the engine is inside its chunk
\* loop, the engine dispatches the classification calls of no further chunk.
C3_CooperativeStop ==
    [][\A e \in Engines : eng[e].stopSeen => ~Dispatches(e)]_vars

\* C4: after an accepted cancel the session stays failed with error 'Cancelled by
\* user' and the result rows of that time stay (reset apart).
C4_CancelTerminal ==
    [][(Cancelled /\ ~ResetStep) => (Cancelled' /\ IsPrefix(results, results'))]_vars

\* C5: at most one processWords invocation runs for the session, and a resume
\* attempted while the status is 'processing' is rejected.
C5_MutualExclusion ==
    /\ ~(\A e \in Engines : eng[e].pc \in {"progress", "chunk", "stats", "emitChunk"})
    /\ eng["put"].from = "processing" => eng["put"].pc = "rejected"

\* C7: an uninterrupted run of n >= 1 words with chunk size c and an oracle that
\* always succeeds stores totalChunks = ceil(n/c), emits ceil(n/c) chunk_complete
\* events then one complete event, and ends completed with processedWords = n,
\* successfulWords = n, failedWords = 0.
C7_UninterruptedRun ==
    (eng["post"].pc = "done" /\ Uninterrupted) =>
        /\ session.totalChunks = CeilDiv(session.totalWords, session.chunkSize)
        /\ CountType("post", "chunk_complete") = session.totalChunks
        /\ CountType("post", "complete") = 1
        /\ events["post"].types[Len(events["post"].types)] = "complete"
        /\ session.status = "completed"
        /\ session.processedWords = session.totalWords
        /\ session.successfulWords = session.totalWords
        /\ session.failedWords = 0

\* C8: the words are dispatched chunk by chunk in the order of resumeData.wordIds:
\* chunk j holds positions j*c .. j*c+c-1 of that list.
C8_FrozenOrdering ==
    \A e \in Engines :
        eng[e].pc = "chunk" =>
            CurrentChunk(e) =
                SubSeq(eng[e].snap.wordIds,
                       eng[e].chunkIndex * eng[e].chunkSize + 1,
                       Min((eng[e].chunkIndex + 1) * eng[e].chunkSize,
                           Len(eng[e].snap.wordIds)))

\* C9: a run that completes the session has processed exactly totalWords =
\* len(resumeData.wordIds) words, also when Word rows were removed meanwhile.
C9_FrozenSet ==
    \A e \in Engines :
        (eng[e].pc = "emitComplete" /\ eng[e].from = "new") =>
            /\ session.totalWords = Len(session.wordIds)
            /\ eng[e].processedWords = session.totalWords

\* the failing words of C6: the classification or the word update threw
ItemFailures == {"classify", "update"}
FailureRow(w, o) == [wordId |-> w, success |-> FALSE, error |-> o]

C6_State ==
    \A e \in Engines :
        /\ \A i \in 1..Len(eng[e].items) :
              /\ eng[e].items[i].outcome \in ItemFailures =>
                    eng[e].items[i].row = FailureRow(CurrentChunk(e)[i], eng[e].items[i].outcome)
              /\ eng[e].items[i].outcome = "ok" =>
                    /\ eng[e].items[i].row.success
                    /\ eng[e].items[i].row.wordId = CurrentChunk(e)[i]
        /\ eng[e].pc \in {"stats", "emitChunk"} =>
              /\ Len(eng[e].items) = Len(CurrentChunk(e))
              /\ \A i \in 1..Len(eng[e].items) : eng[e].items[i].row # NoRow
        /\ (eng[e].pc = "handleError" /\ eng[e].err = StoreMessage) =>
              \E i \in 1..Len(eng[e].items) : eng[e].items[i].outcome = "escape"

C6_Step ==
    \A e \in Engines :
        /\ \A i \in Returned(e) :
              eng'[e].items[i].outcome \in ItemFailures =>
                  /\ results' = Append(results, eng'[e].items[i].row)
                  /\ session' = session
                  /\ eng[e].pc = "chunk" => eng'[e].pc \in {"chunk", "stats"}
        /\ (eng[e].pc = "stats" /\ eng'[e].pc = "emitChunk") =>
              /\ session'.failedWords = session.failedWords +
                    Cardinality({i \in 1..Len(eng[e].items) :
                                    eng[e].items[i].outcome # "ok"})
              /\ session'.successfulWords = session.successfulWords +
                    Cardinality({i \in 1..Len(eng[e].items) :
                                    eng[e].items[i].outcome = "ok"})
              /\ session'.status = session.status

AppendsOne == \E row \in {results'[Len(results')]} : results' = Append(results, row)
DeleteManyStep == ctl.pc = "delete" /\ ctl'.pc = "idle" /\ results' = <<>>

TailResults(types) ==
    LET marks == {k \in 1..Len(types) : types[k] = "chunk_complete"}
        from == IF marks = {} THEN 0 ELSE CHOOSE k \in marks : \A m \in marks : m <= k
    IN  Cardinality({k \in (from + 1)..Len(types) : types[k] = "result"})
\* the calls of processWordWithTracking of the current chunk of e that have ended
Ended(e) == {i \in 1..Len(eng[e].items) : eng[e].items[i] # NoItem}
\* the stream of e gets one more event in this step, of type t
Emits(e, t) == events'[e].types = Append(events[e].types, t)

\* C11: in parallel mode every word dispatched in a chunk yields exactly one 'result'
\* event on the stream: a run that has ended has carried one per word.
C11_ParallelResultEvents ==
    ( /\ eng["post"].pc = "done"
      /\ eng["post"].mode = "parallel"
      /\ eng["post"].snap.currentChunk = 0 )
    => CountType("post", "result") = Len(eng["post"].words)

C12_State ==
    \A e \in Engines :
        eng[e].mode = "batch" =>
            /\ Cardinality(eng[e].inflight) <= 1
            /\ \A j \in eng[e].inflight : TailResults(events[e].types) = j - 1
            /\ eng[e].pc = "stats" =>
                  TailResults(events[e].types) = Len(CurrentChunk(e))

C12_Step ==
    \A e \in Engines :
        eng[e].mode = "batch" =>
            /\ \A i \in Returned(e) :
                  IF eng'[e].items[i].outcome = "escape"
                  THEN /\ events'[e] = events[e]
                       /\ eng'[e].inflight = {}
                       /\ eng'[e].pc = "handleError"
                  ELSE /\ Emits(e, "result")
                       /\ events'[e].last.wordId = CurrentChunk(e)[i]
                       /\ events'[e].last.success = eng'[e].items[i].row.success
                       /\ TailResults(events'[e].types) = i
                       /\ eng'[e].inflight \subseteq {i + 1}
            /\ Emits(e, "result") => Returned(e) # {}
            /\ Emits(e, "chunk_complete") =>
                  TailResults(events[e].types) = Len(CurrentChunk(e))

InAllowList(error) ==
    \/ error.code \in {"P1001", "P1002", "P1008", "P1017", "P2037"}
    \/ \E w \in error.words :
          w \in {"too many connections", "connection", "timeout", "ECONNRESET", "ETIMEDOUT"}
RECURSIVE SumSeq(_)
SumSeq(q) == IF q = <<>> THEN 0 ELSE q[1] + SumSeq(Tail(q))
\* the operation of c is invoked in this step and throws
Fails(c) == call[c].pc = "attempt" /\ Len(call'[c].errs) = Len(call[c].errs) + 1
\* the operation of c is invoked in this step and returns its result
Succeeds(c) ==
    /\ call[c].pc = "attempt"
    /\ call'[c].invocations = call[c].invocations + 1
    /\ call'[c].errs = call[c].errs
InFlight == {p \in Promises : conn.promise[p] = "pending"}

C13_State ==
    \A c \in Callers :
        LET j == Len(call[c].errs) IN
        /\ call[c].pc = "returned" =>
              /\ j < call[c].maxRetries
              /\ call[c].invocations = j + 1
              /\ Len(call[c].waits) = j
              /\ \A k \in 1..j : call[c].waits[k] = call[c].initialDelay * 2^(k - 1)
              /\ SumSeq(call[c].waits) >= call[c].initialDelay * (2^j - 1)
        /\ call[c].pc = "thrown" =>
              \/ call[c].err = ConnectError
              \/ j = call[c].maxRetries
              \/ ~InAllowList(call[c].errs[j])

C13_Step ==
    \A c \in Callers : Succeeds(c) => call'[c].pc = "returned" /\ call'[c].err = NoError

\* C13: an operation that throws retryable errors on its first j < maxRetries attempts
\* and then succeeds makes withRetry return; the wait before the k-th retry is
\* initialDelay * 2^(k-1), the total at least initialDelay * (2^j - 1); withRetry gives
\* up early only on a failed connection attempt or a non-retryable error.
C13_Backoff == []C13_State /\ [][C13_Step]_vars

\* two retryable failures, maxRetries = 3, initialDelay = 2: waits of 2 and 4
C13_Witness ==
    /\ call["a"].pc = "returned"
    /\ call["a"].maxRetries = 3
    /\ call["a"].initialDelay = 2
    /\ Len(call["a"].errs) = 2
    /\ call["a"].waits = <<2, 4>>

C14_State ==
    \A c \in Callers :
        LET j == Len(call[c].errs) IN
        (j >= 1 /\ ~InAllowList(call[c].errs[j])) =>
            /\ call[c].pc = "thrown"
            /\ call[c].err = call[c].errs[j]
            /\ call[c].invocations = j
            /\ Len(call[c].waits) = j - 1

C14_Step ==
    \A c \in Callers :
        (Fails(c) /\ ~InAllowList(call'[c].errs[Len(call'[c].errs)])) =>
            /\ call'[c].pc = "thrown"
            /\ call'[c].err = call'[c].errs[Len(call'[c].errs)]
            /\ call'[c].waits = call[c].waits
            /\ conn' = conn

\* C14: an attempt that throws an error outside the retryable allow-list makes
\* withRetry rethrow that error in the same step: no wait, no change of the connection
\* state, no further invocation of the operation.
C14_NonRetryable == []C14_State /\ [][C14_Step]_vars

\* a constraint violation on the first of three allowed attempts
C14_Witness ==
    /\ call["a"].pc = "thrown"
    /\ call["a"].maxRetries = 3
    /\ call["a"].err.code = "P2002"
    /\ call["a"].invocations = 1
    /\ call["a"].waits = <<>>

\* C15: when every attempt throws a retryable error, withRetry invokes the operation
\* maxRetries times after the first attempt and then throws MaxRetriesExceeded.
C15_RetryExhaustion ==
    \A c \in Callers :
        ( /\ call[c].pc = "thrown"
          /\ call[c].err # ConnectError
          /\ \A k \in 1..Len(call[c].errs) : InAllowList(call[c].errs[k]) )
        => /\ call[c].invocations = call[c].maxRetries + 1
           /\ call[c].err = MaxRetriesExceeded

\* C16: at most one $connect is in flight, and the callers that wait for a connection
\* wait for the same attempt.
C16_SingleInFlightConnection ==
    /\ Cardinality(InFlight) <= 1
    /\ \A c, d \in Callers :
          (call[c].pc = "awaitConn" /\ call[d].pc = "awaitConn"
              /\ conn.promise[call[c].waitOn] = "pending"
              /\ conn.promise[call[d].waitOn] = "pending")
          => call[c].waitOn = call[d].waitOn

\* the rows of the pair (word, languageId)
RowsOf(languageId) == {i \in 1..Len(wordRows) : wordRows[i].languageId = languageId}

\* C17: two upsertWord calls in sequence for one (word, languageId) pair with different
\* values leave exactly one row for the pair, and it holds the second call's value.
C17_IdempotentUpsert ==
    \A c, d \in Callers :
        ( /\ ups[c].pc = "returned" /\ ups[d].pc = "returned"
          /\ c \in ups[d].after /\ d \notin ups[c].after
          /\ ups[c].languageId = ups[d].languageId
          /\ ups[c].value # ups[d].value )
        => /\ Cardinality(RowsOf(ups[d].languageId)) = 1
           /\ \A i \in RowsOf(ups[d].languageId) : wordRows[i].value = ups[d].value

\* the first call created the row of a null-language pair, the second updated it
C17_Witness ==
    /\ ups["a"].pc = "returned" /\ ups["b"].pc = "returned"
    /\ "a" \in ups["b"].after
    /\ ups["a"].languageId = NoLanguage /\ ups["b"].languageId = NoLanguage
    /\ ups["a"].found = NoRowId /\ ups["b"].found = 1
    /\ ups["a"].value = 1 /\ ups["b"].value = 2
    /\ wordRows = <<WordRow(1, NoLanguage, 2)>>

\* C18: when two concurrent upsertWord calls for one pair both find no row, neither
\* gets an error and exactly one row for the pair exists afterwards.
C18_UpsertUnderRace ==
    \A c, d \in Callers :
        ( /\ c # d
          /\ ups[c].pc \in {"returned", "thrown"} /\ ups[d].pc \in {"returned", "thrown"}
          /\ ups[c].languageId = ups[d].languageId
          /\ ups[c].found = NoRowId /\ ups[d].found = NoRowId )
        => /\ ups[c].pc = "returned" /\ ups[d].pc = "returned"
           /\ Cardinality(RowsOf(ups[c].languageId)) = 1

\* the statuses from which the claim has each control action accepted
Accepted(a, status) ==
    CASE a = "pause" -> status = "processing"
      [] a = "cancel" -> status \in {"processing", "paused", "pending"}
      [] a = "reset" -> status # "processing"

\* C19: a control request is accepted iff its action is legal for the status it reads
\* (pause: processing; cancel: processing, paused, pending; reset: not processing);
\* a rejected request changes neither the session nor the result rows and is over.
C19_ControlLegality ==
    [][\A a \in Actions :
          PatchRead(a) =>
              /\ (ctl'.pc = "write" /\ ctl'.action = a) <=> Accepted(a, session.status)
              /\ ~Accepted(a, session.status) =>
                    /\ session' = session
                    /\ results' = results
                    /\ ctl'.pc = "idle"
      ]_vars

\* a cancel has been accepted for a paused session
C19_Witness ==
    /\ ctl.pc = "write" /\ ctl.action = "cancel"
    /\ "pause" \in ctl.accepted
    /\ session.status = "paused"

\* C20: the update of an accepted reset sets status to pending, zeroes processedWords,
\* successfulWords, failedWords, currentChunk, totalTokensUsed, estimatedCost and
\* retryCount, clears error, the timestamps and lastProcessedWordId and leaves every
\* other column (totalWords, totalChunks, the configuration, resumeData) as it is; its
\* deleteMany then removes every result row of the session.
C20_ResetEffect ==
    [][ /\ (ctl.pc = "write" /\ ctl.action = "reset" /\ ctl'.pc # "write") =>
              /\ session' = [session EXCEPT
                               !.status = "pending", !.processedWords = 0,
                               !.successfulWords = 0, !.failedWords = 0,
                               !.currentChunk = 0, !.totalTokensUsed = 0,
                               !.estimatedCost = 0, !.retryCount = 0,
                               !.error = "none", !.startedAt = NullDate,
                               !.completedAt = FALSE, !.estimatedEndTime = FALSE,
                               !.lastProcessedAt = FALSE,
                               !.lastProcessedWordId = NoWordId]
              /\ results' = results
              /\ ctl'.pc = "delete"
        /\ (ctl.pc = "delete" /\ ctl'.pc # "delete") =>
              /\ results' = <<>>
              /\ session' = session
              /\ ctl'.pc = "idle"
      ]_vars

\* a completed run of two words has been reset: counters zero, no rows left
C20_Witness ==
    /\ "reset" \in ctl.accepted /\ ctl.pc = "idle"
    /\ eng["post"].pc = "done"
    /\ session.status = "pending"
    /\ session.totalWords = 2 /\ session.totalChunks >= 1
    /\ session.processedWords = 0 /\ session.successfulWords = 0
    /\ session.totalTokensUsed = 0 /\ ~session.completedAt
    /\ results = <<>>

\* C21: every stream that has carried an event carries exactly one 'started' event, and
\* it is the stream's first event.
C21_StreamOpening ==
    \A e \in Engines :
        Len(events[e].types) >= 1 =>
            /\ events[e].types[1] = "started"
            /\ CountType(e, "started") = 1

TerminalEvents == {"complete", "error"}
Terminals(e) == {k \in 1..Len(events[e].types) : events[e].types[k] \in TerminalEvents}
\* controller.close() in the finally block has run
Closed(e) == eng[e].pc \in {"done", "thrown"}

C22_State ==
    \A e \in Engines :
        /\ Cardinality(Terminals(e)) <= 1
        /\ Terminals(e) \subseteq {Len(events[e].types)}
        /\ Closed(e) <=> Terminals(e) # {}
        /\ eng[e].pc = "done" => events[e].last.type = "complete"
        /\ eng[e].pc = "thrown" => events[e].last.type = "error"

C22_Step ==
    \A e \in Engines :
        /\ Closed(e) => events'[e] = events[e] /\ eng'[e] = eng[e]
        /\ events'[e] # events[e] =>
              \E t \in {"started", "resumed", "result", "chunk_complete", "complete",
                        "error"} : Emits(e, t)

\* C22: a stream carries at most one terminal event ('complete' or 'error'), it is the
\* stream's last event, the stream is closed exactly when it has been sent, and a
\* closed stream carries nothing more.
C22_StreamTermination == []C22_State /\ [][C22_Step]_vars

\* the start stream has ended with 'complete', the resume stream with 'error'
C22_Witness ==
    /\ eng["post"].pc = "done" /\ eng["put"].pc = "thrown"
    /\ events["post"].last.type = "complete"
    /\ events["put"].types = <<"resumed", "error">>

\* C23: once the consumer has cancelled the stream, the engine dispatches the
\* classification calls of no chunk that was not yet dispatched.
C23_ClientDisconnect ==
    [][\A e \in Engines : eng[e].cancelled => ~Dispatches(e)]_vars

\* C24: an 'error' event sent for a session the user has cancelled reports
\* canResume = false.
C24_ResumableFlag ==
    [][\A e \in Engines :
          ("cancel" \in ctl.accepted /\ Emits(e, "error")) => ~events'[e].last.canResume
      ]_vars

EngineEvents == {"result", "chunk_complete", "complete"}
\* processWords of e has found no session to run
Refused(e) == eng[e].pc \in {"thrown", "aborted"} /\ eng[e].err = NotFoundMessage

\* C26: processWords on a session that is missing or completed fails with an error,
\* writes nothing to the session or its results, starts no classification call and
\* emits no engine event, then and ever after.
C26_State ==
    \A e \in Engines :
        Refused(e) =>
            /\ eng[e].inflight = {} /\ eng[e].items = <<>> /\ eng[e].words = <<>>
            /\ \A k \in 1..Len(events[e].types) : events[e].types[k] \notin EngineEvents
C26_Step ==
    \A e \in Engines :
        /\ ( /\ eng[e].pc = "resumeRead" /\ eng'[e] # eng[e]
             /\ (~session.exists \/ session.status = "completed") )
           => /\ Refused(e)'
              /\ session' = session /\ results' = results
              /\ events'[e] = events[e] \/ Emits(e, "error")
        /\ Refused(e) => eng'[e] = eng[e] /\ events'[e] = events[e]
C26_StartGuard == []C26_State /\ [][C26_Step]_vars
C26_Witness ==
    /\ Refused("put") /\ session.status = "completed"
    /\ events["put"].types = <<"resumed", "error">>

\* the counters of the session row
Progress(s) == <<s.processedWords, s.successfulWords, s.failedWords>>

\* C27: once an error has left the per-item boundary, the counters of the session keep
\* their values and no stored result row is removed or changed (the steps of a reset
\* request apart); handleSessionError then
\* sets status failed, the error message and retryCount + 1 and nothing else, and the
\* stream gets exactly one 'error' event, its last.
C27_State ==
    \A e \in Engines :
        /\ CountType(e, "error") <= 1
        /\ eng[e].pc = "thrown" =>
              /\ CountType(e, "error") = 1
              /\ events[e].types[Len(events[e].types)] = "error"
              /\ ctl.accepted = {} =>
                    /\ session.status = "failed"
                    /\ session.error = eng[e].err
                    /\ session.retryCount = 1
C27_Step ==
    \A e \in Engines :
        /\ (eng[e].pc = "handleError" /\ ~ResetStep) =>
              /\ Progress(session') = Progress(session)
              /\ IsPrefix(results, results')
        /\ (eng[e].pc = "handleError" /\ eng'[e].pc # "handleError") =>
              /\ session' = [session EXCEPT !.status = "failed", !.error = eng[e].err,
                                            !.retryCount = session.retryCount + 1]
              /\ results' = results
              /\ Emits(e, "error")
              /\ eng'[e].pc = "thrown"
C27_EngineFailure == []C27_State /\ [][C27_Step]_vars
C27_Witness ==
    /\ eng["post"].pc = "thrown" /\ eng["post"].err = StoreMessage
    /\ session.status = "failed" /\ session.retryCount = 1
    /\ session.processedWords > 0 /\ results # <<>>

\* the events that carry stats
StatsCarriers == {"started", "resumed", "chunk_complete", "complete"}

\* C28: the estimatedTimeRemaining of every emitted stats is not negative, and it is 0
\* when the sample window of the emitting service is empty, as it is for the stats of
\* the 'resumed' event.
C28_EtaBounds ==
    [][\A e \in Engines : \A t \in StatsCarriers :
          Emits(e, t) =>
              /\ events'[e].last.stats.estimatedTimeRemaining >= 0
              /\ eng[e].processingTimes = <<>> =>
                    events'[e].last.stats.estimatedTimeRemaining = 0
              /\ t = "resumed" => events'[e].last.stats.estimatedTimeRemaining = 0
      ]_vars
C28_Witness ==
    /\ eng["post"].processingTimes # <<>>
    /\ events["put"].types = <<"resumed">>
    /\ events["put"].last.stats.processedWords > 0
    /\ events["put"].last.stats.processedWords < events["put"].last.stats.totalWords
    /\ events["put"].last.stats.estimatedTimeRemaining = 0

\* the columns that only grow
Counters(s) ==
    <<s.processedWords, s.successfulWords, s.failedWords, s.currentChunk,
      s.totalTokensUsed, s.estimatedCost>>

\* C29: no step other than a reset decreases processedWords, successfulWords,
\* failedWords, currentChunk, totalTokensUsed or estimatedCost of the session.
C29_MonotonicCounters ==
    [][ResetStep \/ \A k \in 1..Len(Counters(session)) :
                        Counters(session')[k] >= Counters(session)[k]]_vars

\* the words of the chunks before the one e is at
WordsBefore(e) == Min(eng[e].chunkIndex * eng[e].chunkSize, Len(eng[e].words))
\* the words e has taken through processWordWithTracking so far
WordsDone(e) ==
    IF eng[e].pc \in {"chunk", "handleError", "thrown"}
    THEN eng[e].processedWords + Cardinality(Ended(e))
    ELSE eng[e].processedWords
\* a call of processWordWithTracking of e starts in this step
StartsCall(e) == Dispatches(e) \/ eng'[e].inflight \ eng[e].inflight # {}

\* C30: in a run that no reset has touched, whenever a word of chunk i is dispatched the
\* persisted session has currentChunk = i and processedWords = the number of words of
\* the chunks before i, and the persisted processedWords is never more than one chunk
\* behind the words the run has processed.
C30_State ==
    \A e \in Engines :
        (eng[e].pc \notin {"idle", "rejected"} /\ "reset" \notin ctl.accepted) =>
            /\ session.processedWords <= WordsDone(e)
            /\ WordsDone(e) <= session.processedWords + eng[e].chunkSize
C30_Step ==
    \A e \in Engines :
        (StartsCall(e) /\ "reset" \notin ctl.accepted) =>
            /\ session'.currentChunk = eng'[e].chunkIndex
            /\ session'.processedWords = WordsBefore(e)'
C30_CheckpointBeforeDispatch == []C30_State /\ [][C30_Step]_vars
C30_Witness ==
    /\ eng["post"].pc = "chunk" /\ eng["post"].chunkIndex = 1
    /\ eng["post"].inflight # {}
    /\ session.currentChunk = 1 /\ session.processedWords = 1
    /\ "reset" \notin ctl.accepted

\* the words a run from the cursor has to process
AfterCursor(ids, last) ==
    IF \E k \in 1..Len(ids) : ids[k] = last
    THEN {ids[k] : k \in {j \in 1..Len(ids) : \E i \in 1..(j - 1) : ids[i] = last}}
    ELSE Range(ids)

C32_StartedAtOnce ==
    [][\A e \in Engines :
          ( /\ eng[e].pc = "resumeWrite" /\ eng'[e].pc = "load"
            /\ session.startedAt # NullDate )
          => /\ session'.status = "processing"
             /\ session'.startedAt = session.startedAt
      ]_vars

\* the latest error of c's operation was a connection exhaustion
Exhausted(c) ==
    /\ call[c].errs # <<>>
    /\ \/ call[c].errs[Len(call[c].errs)].code = "P2037"
       \/ "too many connections" \in call[c].errs[Len(call[c].errs)].words

\* C33: after an attempt that failed with a connection-exhaustion error and is retried,
\* the connection state is dropped and a disconnect issued, then the backoff wait, then
\* a new $connect, and the operation is invoked again only once that has resolved.
C33_State ==
    \A c \in Callers :
        Exhausted(c) =>
            /\ call[c].pc \in {"disconnect", "sleep"} =>
                  ~conn.isConnected /\ conn.connectionPromise = NoPromise
            /\ call[c].pc = "attempt" => conn.isConnected
C33_Step ==
    \A c \in Callers :
        /\ (call[c].pc = "attempt" /\ call'[c].pc \in {"disconnect", "sleep"}
               /\ Exhausted(c)') => call'[c].pc = "disconnect"
        /\ (call[c].pc # "sleep" /\ call'[c].pc = "sleep" /\ Exhausted(c)')
               => call[c].pc = "disconnect"
        /\ (call[c].pc = "sleep" /\ call'[c].pc # "sleep" /\ Exhausted(c))
               => /\ call'[c].pc = "awaitConn"
                  /\ conn.promise[call'[c].waitOn] = "none"
                  /\ conn'.promise[call'[c].waitOn] = "pending"
        /\ (call[c].pc = "awaitConn" /\ call'[c].pc = "attempt")
               => conn.promise[call[c].waitOn] = "resolved"
C33_ForcedReconnect == []C33_State /\ [][C33_Step]_vars
C33_Witness ==
    /\ call["a"].pc = "returned" /\ call["a"].invocations = 2
    /\ Exhausted("a")
    /\ Cardinality({p \in Promises : conn.promise[p] = "resolved"}) = 2

\* the strongest of the four rules by which a language matches: 1 name, 2 code,
\* 3 alias, 4 prefix, 5 none
RuleOf(lang, n) ==
    IF ToLowerCase(lang.name) = n THEN 1
    ELSE IF lang.code # <<>> /\ ToLowerCase(lang.code) = n THEN 2
    ELSE IF n \in LanguageAliases(ToLowerCase(lang.name)) THEN 3
    ELSE IF StartsWith(ToLowerCase(lang.name), n) \/ StartsWith(n, ToLowerCase(lang.name))
    THEN 4
    ELSE 5
Normalized == Trim(ToLowerCase(lookup.detected))
Matching == {k \in 1..Len(lookup.list) : RuleOf(lookup.list[k], Normalized) < 5}
\* the position of the returned row in the list (0: null)
Returned_ == IF \E k \in 1..Len(lookup.list) : lookup.list[k] = lookup.result
             THEN CHOOSE k \in 1..Len(lookup.list) : lookup.list[k] = lookup.result
             ELSE 0

\* C34 as stated: when the answer matches more than one language, the language returned
\* is the earliest matching one in the list.
C34_EarliestMatch ==
    ( /\ lookup.kind = "language" /\ Normalized # <<>>
      /\ Cardinality(Matching) > 1 )
    => /\ Returned_ \in Matching
       /\ \A k \in Matching : Returned_ <= k

\* C34 amended: the language returned matches by the strongest rule that any language
\* of the list matches by (name, then code, then alias, then prefix), and is the
\* earliest in the list among those that match by that rule; null when none matches.
C34_StrongestRuleThenEarliest ==
    (lookup.kind = "language" /\ Normalized # <<>>) =>
        IF Matching = {} THEN lookup.result = NullRow
        ELSE /\ Returned_ \in Matching
             /\ \A k \in Matching :
                   \/ RuleOf(lookup.result, Normalized) < RuleOf(lookup.list[k], Normalized)
                   \/ /\ RuleOf(lookup.result, Normalized)
                           = RuleOf(lookup.list[k], Normalized)
                      /\ Returned_ <= k
C34_Witness ==
    /\ lookup.kind = "language" /\ lookup.detected = <<"e", "s">>
    /\ Cardinality(Matching) > 1
    /\ lookup.list[1].id = 3 /\ lookup.result.id = 2

\* C40: findMatchingLanguage and findMatchingCategory return null for an answer that is
\* empty or only whitespace, whatever the list.
C40_BlankMatchesNothing ==
    (lookup.kind # "none" /\ Normalized = <<>>) => lookup.result = NullRow

\* C35: when the client has not disconnected, the process-stream handler has closed
\* the stream by the time it returns after its terminal event.
C35_ProcessStreamCloses ==
    ( /\ ps.pc = "returned" /\ ~ps.cancelled
      /\ ps.types # <<>> /\ ps.types[Len(ps.types)] \in {"complete", "error"} )
    => ps.closed

\* a processWords invocation of e is running
Running(e) ==
    eng[e].pc \in {"resumeRead", "resumeWrite", "load", "progress", "chunk", "stats",
                   "emitChunk", "complete", "emitComplete", "handleError"}

\* C36: the update and the deleteMany of a reset are never applied while a processWords
\* invocation of the session is running, and after an accepted reset the session has
\* zero counters and no result rows until it is started again.
C36_State ==
    ("reset" \in ctl.accepted /\ ctl.pc = "idle" /\ session.status = "pending") =>
        /\ Counters(session) = <<0, 0, 0, 0, 0, 0>>
        /\ results = <<>>
C36_Step == (ResetStep /\ ctl' # ctl) => \A e \in Engines : ~Running(e)
C36_ResetNeverHitsRunningJob == []C36_State /\ [][C36_Step]_vars

\* C37: once an invocation has written status completed, none of its later steps
\* changes the status: a failure on the way to the 'complete' event does not make the
\* session failed.
C37_CompletedIsFinal ==
    [][\A e \in Engines :
          (Running(e) /\ eng'[e] # eng[e] /\ session.status = "completed")
          => session'.status = "completed"
      ]_vars

\* C38: a processWords run started on a session stored by the creation endpoints, with
\* any stored chunk size, eventually reaches status completed or failed.
C38_RunTerminates ==
    \A e \in Engines :
        (eng[e].pc = "resumeRead") ~> (session.status \in {"completed", "failed"})

\* C39: for every maxRetries from 0, withRetry invokes the operation at least once
\* before it reports a failure (here: any failure but that of the connection attempt
\* made before the loop).
C39_AlwaysTries ==
    \A c \in Callers :
        (call[c].pc = "thrown" /\ call[c].err # ConnectError) => call[c].invocations >= 1
====
